---- MODULE Spec2Model ----
(***************************************************************************)
(* vigil-watchdog: the heartbeat receiver, the monitoring loop, the alert  *)
(* manager and the recovery runner of src/vigil.py, as one state machine.  *)
(*                                                                         *)
(* The program is a single asyncio event loop: a coroutine runs without    *)
(* interruption from one `await` to the next, so every action below is the *)
(* code between two awaits.  The heartbeat handler has no await after the  *)
(* body is read, so it is one action; monitor_loop is cut at each await    *)
(* (sleep, ping, Telegram post, Twilio post, SSH command) and monPc names  *)
(* the await it is suspended in.                                           *)
(*                                                                         *)
(* Time is counted in seconds; the clock moves in steps of one sleep       *)
(* period (60 s), independently of the program.                            *)
(***************************************************************************)
EXTENDS Integers, Sequences, FiniteSets, TLC

(* ------------------------------ bounds -------------------------------- *)
\* clock steps of TickSleep seconds explored
MaxSteps == 4
\* heartbeat requests explored, with plain heartbeat bodies
MaxRequests == 3
\* heartbeat requests explored, with every kind of body
IngestRequests == 2
\* times the wall clock is set back
MaxClockSets == 1
\* run_recovery calls explored from the command path
MaxCalls == 2
\* the longest interval history the anomaly detector is started from
MaxHistory == 10

\* the longest interval history a single heartbeat is checked against
LongHistory == 20

\* chat messages explored
MaxMessages == 3

(* -------------------------- program constants ------------------------- *)
heartbeat_timeout == 180
TickSleep == 60
anomaly_threshold == 2
MinSamples == 10
EventCap == 1000
IntervalCap == 1000
ResponseCap == 100
AlertCap == 100
RecentHours == 6
SecondsPerHour == 3600
\* Optional[datetime] = None
None == -1
\* Config.authorized_user, the default of VIGIL_AUTHORIZED_USER
authorized_user == "2037643246"

Services == {"jordan", "minimax"}

\* RECOVERY_SCRIPTS: the number of scripts of each target
RECOVERY_SCRIPTS ==
    [t \in {"gateway", "minimax", "caffeinate", "full_restart"} |->
        CASE t = "gateway" -> 3
          [] t = "minimax" -> 1
          [] t = "caffeinate" -> 1
          [] t = "full_restart" -> 3]

\* RECOVERY_SCRIPTS: the commands of each target, in order
RecoveryPlan ==
    [t \in DOMAIN RECOVERY_SCRIPTS |->
        CASE t = "gateway" -> <<"gateway restart", "launchctl kickstart", "pkill and start">>
          [] t = "minimax" -> <<"reopen MiniMax">>
          [] t = "caffeinate" -> <<"caffeinate">>
          [] t = "full_restart" -> <<"gateway restart", "sleep 5", "reopen MiniMax">>]

\* a lookup that falls back to the gateway scripts
ScriptsOrGateway(target) ==
    IF target \in DOMAIN RecoveryPlan THEN RecoveryPlan[target]
    ELSE RecoveryPlan["gateway"]

\* RECOVERY_SCRIPTS.get(target, [])
ScriptsOf(target) ==
    IF target \in DOMAIN RecoveryPlan THEN RecoveryPlan[target] ELSE <<>>

(* --------------------------- configurations --------------------------- *)
\* twilio: "none" (twilio_sid empty), "sid_only" (sid set, another Twilio
\* setting empty), "full" (all four set); mac: mac_mac_address is set;
\* enable_ml: ENABLE_ML.  The configurations explored take every branch
\* that reads them; anomaly_threshold is ANOMALY_THRESHOLD, in whole
\* standard deviations.
Configs ==
    { [twilio |-> tw, mac |-> (tw # "none"), enable_ml |-> TRUE,
       anomaly_threshold |-> anomaly_threshold]
        : tw \in {"none", "sid_only", "full"} }

\* the configuration the heartbeat receiver is explored under: it reads no
\* setting, and with ENABLE_ML=false the tick has no prediction step
IngestConfigs ==
    { [twilio |-> "none", mac |-> FALSE, enable_ml |-> FALSE,
       anomaly_threshold |-> anomaly_threshold] }

(* ------------------------------ payloads ------------------------------ *)
\* details of a heartbeat: t = "dict" (a JSON object; rt is its
\* response_time, None when the key is absent) or "int" (a JSON number, on
\* which `"response_time" in details` raises TypeError)
EmptyDetails == [t |-> "dict", rt |-> None]
TimedDetails == [t |-> "dict", rt |-> 1]
NumberDetails == [t |-> "int", rt |-> None]

HeartbeatBody(source, status, details) ==
    [kind |-> "object", source |-> source, status |-> status, details |-> details]

\* a request body: not JSON at all, a JSON array, or a JSON object; source
\* "unknown" is the default of data.get("source", "unknown") and stands for
\* every id that is not a configured service
Payloads ==
    { [kind |-> k, source |-> "unknown", status |-> "ok", details |-> EmptyDetails]
        : k \in {"notjson", "array"} }
    \cup
    { HeartbeatBody("jordan", "ok", EmptyDetails),
      HeartbeatBody("jordan", "ok", TimedDetails),
      HeartbeatBody("jordan", "ok", NumberDetails),
      HeartbeatBody("jordan", "degraded", EmptyDetails),
      HeartbeatBody("minimax", "ok", EmptyDetails),
      HeartbeatBody("minimax", "ok", NumberDetails),
      HeartbeatBody("unknown", "ok", EmptyDetails) }

\* the well-formed heartbeats with default status and empty details
PlainPayloads ==
    { HeartbeatBody(src, "ok", EmptyDetails) : src \in {"jordan", "minimax", "unknown"} }

VARIABLES
    now,                 \* the wall clock, seconds
    config,              \* the Config the process started with
    jordan, minimax,     \* state.jordan, state.minimax (HeartbeatStatus)
    mac_awake, alert_sent, recovery_attempts,
    metrics,             \* state.metrics
    heartbeat_intervals, \* state.heartbeat_intervals
    events,              \* state.events
    alert_history,       \* alerts.alert_history
    monPc,               \* the await monitor_loop is suspended in
    tickNow,             \* monitor_loop's local `now`
    wakeAt,              \* when the pending asyncio.sleep(60) ends
    jordan_down, minimax_down,  \* monitor_loop's locals
    level,               \* send_alert's parameter
    scriptIdx,           \* run_recovery's position in the script list
    telegram, sms, wol, ssh,    \* calls handed to the collaborators
    reqCount, resp,      \* heartbeat requests answered, the last HTTP status
    sendAlertCalls,      \* history: send_alert calls begun
    episodeAlerts,       \* history: timeout alerts per service since its last heartbeat
    tickRec,             \* history: what the running tick found and did
    cmd,                 \* the run_recovery call of the command path
    clockSets,           \* times the wall clock was set back
    chat                 \* the chat message process_message is working on

stateVars == <<jordan, minimax, mac_awake, alert_sent, recovery_attempts,
               metrics, heartbeat_intervals, events, alert_history>>
monVars == <<monPc, tickNow, wakeAt, jordan_down, minimax_down, level, scriptIdx>>
extVars == <<telegram, sms, wol, ssh>>
httpVars == <<reqCount, resp>>
histVars == <<sendAlertCalls, episodeAlerts, tickRec>>
envVars == <<cmd, clockSets, chat>>
vars == <<now, config, stateVars, monVars, extVars, httpVars, histVars, envVars>>

(* ------------------------------ helpers ------------------------------- *)
\* the sum of s[lo..hi] and of its squares, by halves: a full history is
\* 1000 samples long
RECURSIVE SumRange(_, _, _)
SumRange(s, lo, hi) ==
    IF lo > hi THEN 0
    ELSE IF lo = hi THEN s[lo]
    ELSE LET mid == (lo + hi) \div 2
         IN SumRange(s, lo, mid) + SumRange(s, mid + 1, hi)

RECURSIVE SumSqRange(_, _, _)
SumSqRange(s, lo, hi) ==
    IF lo > hi THEN 0
    ELSE IF lo = hi THEN s[lo] * s[lo]
    ELSE LET mid == (lo + hi) \div 2
         IN SumSqRange(s, lo, mid) + SumSqRange(s, mid + 1, hi)

SumSeq(s) == SumRange(s, 1, Len(s))

SumSq(s) == SumSqRange(s, 1, Len(s))

Abs(x) == IF x < 0 THEN 0 - x ELSE x

RECURSIVE Gcd(_, _)
Gcd(a, b) == IF b = 0 THEN a ELSE Gcd(b, a % b)

\* the greatest common divisor of s[lo..hi] (0 if all are 0)
RECURSIVE GcdRange(_, _, _)
GcdRange(s, lo, hi) ==
    IF lo > hi THEN 0
    ELSE IF lo = hi THEN Abs(s[lo])
    ELSE LET mid == (lo + hi) \div 2
         IN Gcd(GcdRange(s, lo, mid), GcdRange(s, mid + 1, hi))

\* A z-score does not depend on the unit the samples are measured in: the
\* statistics are taken over the samples in their largest common unit, which
\* keeps the sums of a full history within the integers of the checker.
UnitOf(intervals, current_interval) ==
    LET g == Gcd(Abs(current_interval), GcdRange(intervals, 1, Len(intervals)))
    IN IF g = 0 THEN 1 ELSE g

InUnits(intervals, u) == [i \in 1..Len(intervals) |-> intervals[i] \div u]

\* an append that never evicts
DequeAppendUnbounded(q, x, cap) == Append(q, x)

\* deque(maxlen=cap).append(x)
DequeAppend(q, x, cap) ==
    LET a == Append(q, x)
    IN IF Len(a) > cap THEN SubSeq(a, Len(a) - cap + 1, Len(a)) ELSE a

\* State.add_event: append, keep the last 1000
add_event(evts, type, source) ==
    LET a == Append(evts, [type |-> type, source |-> source, ts |-> now])
    IN IF Len(a) > EventCap THEN SubSeq(a, Len(a) - EventCap + 1, Len(a)) ELSE a

\* The log as the model keeps it.  predict_failure is the only modelled code
\* that reads state.events back, and it counts the "failure" events; events
\* of the other types are written and never read, and are left out of the
\* modelled log.
ReadBack == {"failure"}

Logged(evts, type, source) ==
    IF type \in ReadBack THEN add_event(evts, type, source) ELSE evts

\* State.get_recent_events(hours)
get_recent_events(evts, hours) ==
    SelectSeq(evts, LAMBDA e : e.ts > now - hours * SecondsPerHour)

\* detect_anomaly without the `< 10` return
detect_anomaly_unguarded(intervals, current_interval) ==
    LET u == UnitOf(intervals, current_interval)
        n == Len(intervals)
        S == SumSeq(InUnits(intervals, u))
        Q == SumSq(InUnits(intervals, u))
        d == n * (current_interval \div u) - S
    IN IF n * Q - S * S = 0 THEN FALSE
       ELSE d * d > (config.anomaly_threshold * config.anomaly_threshold
                       * n * (n * Q - S * S)) \div (n - 1)

\* a detector whose statistics leave out the sample just recorded
detect_anomaly_excluding(intervals, current_interval) ==
    LET u == UnitOf(intervals, current_interval)
        h == SubSeq(intervals, 1, Len(intervals) - 1)
        n == Len(h)
        S == SumSeq(InUnits(h, u))
        Q == SumSq(InUnits(h, u))
        d == n * (current_interval \div u) - S
    IN IF n < MinSamples THEN FALSE
       ELSE IF n * Q - S * S = 0 THEN FALSE
       ELSE d * d > (config.anomaly_threshold * config.anomaly_threshold
                       * n * (n * Q - S * S)) \div (n - 1)

\* PredictiveEngine.detect_anomaly, on the history as it is when called.
\* mean = S/n, stdev^2 = (n*Q - S^2) / (n*(n-1)); |z| > t is compared squared,
\* d^2 * (n-1) > t^2 * n * (n*Q - S^2), with the factor n-1 divided out.
detect_anomaly(intervals, current_interval) ==
    LET u == UnitOf(intervals, current_interval)
        n == Len(intervals)
        S == SumSeq(InUnits(intervals, u))
        Q == SumSq(InUnits(intervals, u))
        d == n * (current_interval \div u) - S
    IN IF n < MinSamples THEN FALSE
       ELSE IF n * Q - S * S = 0 THEN FALSE
       ELSE d * d > (config.anomaly_threshold * config.anomaly_threshold
                       * n * (n * Q - S * S)) \div (n - 1)

\* a predictor that looks at the outages before the response times
predict_failure_outages_first(response_times, evts, attempts) ==
    LET n == Len(response_times)
        recent == SumSeq(SubSeq(response_times, n - 4, n))
        older == SumSeq(SubSeq(response_times, n - 9, n - 5))
        outages == SelectSeq(get_recent_events(evts, RecentHours),
                             LAMBDA e : e.type = "failure")
    IN IF Len(outages) >= 3 THEN "outages"
       ELSE IF n >= MinSamples /\ 2 * recent > 3 * older THEN "response_times"
       ELSE IF attempts >= 2 THEN "recovery_attempts"
       ELSE "none"

\* PredictiveEngine.predict_failure: the pattern that fires, or "none"
predict_failure(response_times, evts, attempts) ==
    LET n == Len(response_times)
        recent == SumSeq(SubSeq(response_times, n - 4, n))
        older == SumSeq(SubSeq(response_times, n - 9, n - 5))
        outages == SelectSeq(get_recent_events(evts, RecentHours),
                             LAMBDA e : e.type = "failure")
    IN IF n >= MinSamples /\ 2 * recent > 3 * older THEN "response_times"
       ELSE IF Len(outages) >= 3 THEN "outages"
       ELSE IF attempts >= 2 THEN "recovery_attempts"
       ELSE "none"

\* the process is alive: asyncio.gather re-raises an exception of
\* monitor_loop into main(), and asyncio.run ends the process
Running == monPc # "crashed"

(* ------------------------------- Init --------------------------------- *)
NewHeartbeatStatus ==
    [last_seen |-> None, status |-> "unknown", details |-> EmptyDetails,
     response_times |-> <<>>]

\* history of one tick: the services its evaluation found down, the gate
\* and the probe result it read, and what it did since
NoTick == [down |-> {}, gate |-> FALSE, awake |-> FALSE, attempts0 |-> 0,
           critical |-> 0, warning |-> 0, wol |-> 0, runs |-> 0,
           primary |-> 0, secondary |-> 0, followups |-> 0, mid |-> FALSE]

\* run_recovery's return value before any call returned
NoResult == [success |-> FALSE, msg |-> <<>>]

\* the command path's run_recovery call: where it is suspended, its target,
\* the ssh_command calls that returned so far, and its return value; calls,
\* s0, f0 and ssh0 are history (calls begun, the counters when it began)
IdleCmd ==
    [pc |-> "idle", target |-> "none", invoked |-> <<>>, result |-> NoResult,
     calls |-> 0, s0 |-> 0, f0 |-> 0, ssh0 |-> 0]

\* process_message: the await it is suspended in ("idle" between messages),
\* the sender of the message, run_recovery's position, and history: the
\* messages taken from the poll, the call_ai calls and the "command" events
IdleChat ==
    [pc |-> "idle", from |-> "none", script |-> 0, msgs |-> 0, ai |-> 0, logged |-> 0]

InitWith(configs) ==
    /\ now = 0
    /\ config \in configs
    /\ jordan = NewHeartbeatStatus
    /\ minimax = NewHeartbeatStatus
    /\ mac_awake = FALSE
    /\ alert_sent = FALSE
    /\ recovery_attempts = 0
    /\ metrics = [heartbeat_count |-> 0, alert_count |-> 0, recovery_success |-> 0,
                  recovery_failed |-> 0, anomalies_detected |-> 0]
    /\ heartbeat_intervals = <<>>
    /\ events = <<>>
    /\ alert_history = <<>>
    /\ monPc = "sleep"
    /\ tickNow = 0
    /\ wakeAt = TickSleep
    /\ jordan_down = FALSE
    /\ minimax_down = FALSE
    /\ level = "warning"
    /\ scriptIdx = 0
    /\ telegram = 0 /\ sms = 0 /\ wol = 0 /\ ssh = 0
    /\ reqCount = 0
    /\ resp = 0
    /\ sendAlertCalls = 0
    /\ episodeAlerts = [s \in Services |-> 0]
    /\ tickRec = NoTick
    /\ cmd = IdleCmd
    /\ clockSets = 0
    /\ chat = IdleChat

Init == InitWith(Configs)

(* ------------------------------ the clock ----------------------------- *)
\* the awaits that can outlast a clock step: the sleep itself, until it is
\* due, and an SSH command, for as long as the remote side hangs (nothing
\* in ssh_command bounds asyncssh.connect or conn.run).  The ping and the
\* Telegram and Twilio posts return within the step they began in.
TimePasses ==
    \/ monPc = "sleep" /\ now < wakeAt
    \/ monPc = "ssh"
    \/ monPc = "crashed"

ClockTick ==
    /\ now < MaxSteps * TickSleep
    /\ TimePasses
    /\ now' = now + TickSleep
    /\ UNCHANGED <<config, stateVars, monVars, extVars, httpVars, histVars, envVars>>

\* datetime.now() is the host's local wall clock: an NTP step, the end of
\* daylight saving time or an operator sets it back.  asyncio.sleep runs on
\* the loop's monotonic clock, so the pending sleep ends as many wall
\* seconds earlier.
ClockSetBack ==
    /\ clockSets < MaxClockSets
    /\ TimePasses
    /\ now >= TickSleep
    /\ now' = now - TickSleep
    /\ wakeAt' = wakeAt - TickSleep
    /\ clockSets' = clockSets + 1
    /\ UNCHANGED <<config, stateVars, monPc, tickNow, jordan_down, minimax_down,
                   level, scriptIdx, extVars, httpVars, histVars, cmd, chat>>

(* --------------------------- handle_heartbeat ------------------------- *)
\* the status a heartbeat stores in the service's record
RecordedStatus(p) == p.status

\* the service record after the heartbeat's field writes
Recorded(hb, p) ==
    [hb EXCEPT !.last_seen = now,
               !.status = RecordedStatus(p),
               !.details = p.details]

\* a receiver that writes the record of every service
RecordsIntoEvery(source, service) == source \in Services

\* the `if source == "jordan"` / `elif source == "minimax"` of the receiver:
\* a heartbeat of `source` is written into the record of `service`
RecordsInto(source, service) == source = service

\* `"response_time" in details` raises TypeError on a number
ContainsRaises(d) == d.t = "int"

\* the sources whose previous last_seen yields an interval sample
IntervalSources == {"jordan"}

\* the flags every heartbeat that reaches line 882 resets
ResetGate ==
    /\ mac_awake' = TRUE
    /\ alert_sent' = FALSE
    /\ recovery_attempts' = 0

\* request.json() raised, or `data.get` raised on a body that is no object:
\* the except branch answers 400 before anything was written
HeartbeatMalformed(p) ==
    /\ p.kind # "object"
    /\ resp' = 400
    /\ UNCHANGED <<stateVars, episodeAlerts>>

HeartbeatObject(p) ==
    LET source == p.source
        hasPrev == source \in IntervalSources /\ jordan.last_seen # None
        interval == now - jordan.last_seen
        ivs == IF hasPrev
                 THEN DequeAppend(heartbeat_intervals, interval, IntervalCap)
                 ELSE heartbeat_intervals
        anomaly == hasPrev /\ detect_anomaly(ivs, interval)
        ev1 == IF anomaly THEN Logged(events, "anomaly", source) ELSE events
        raises == source = "jordan" /\ ContainsRaises(p.details)
        rts == IF source = "jordan" /\ ~raises /\ p.details.rt # None
                 THEN DequeAppend(jordan.response_times, p.details.rt, ResponseCap)
                 ELSE jordan.response_times
    IN /\ p.kind = "object"
       /\ metrics' = [metrics EXCEPT
                        !.heartbeat_count = @ + 1,
                        !.anomalies_detected = IF anomaly THEN @ + 1 ELSE @]
       /\ heartbeat_intervals' = ivs
       /\ jordan' = IF RecordsInto(source, "jordan")
                      THEN [Recorded(jordan, p) EXCEPT !.response_times = rts]
                      ELSE jordan
       /\ minimax' = IF RecordsInto(source, "minimax")
                       THEN Recorded(minimax, p)
                       ELSE minimax
       /\ episodeAlerts' = [s \in Services |->
                              IF s = source /\ ~raises THEN 0 ELSE episodeAlerts[s]]
       /\ UNCHANGED alert_history
       /\ IF raises
            THEN \* the TypeError is caught at line 889: 400, after the writes above
                 /\ events' = ev1
                 /\ resp' = 400
                 /\ UNCHANGED <<mac_awake, alert_sent, recovery_attempts>>
            ELSE /\ ResetGate
                 /\ events' = Logged(ev1, "heartbeat", source)
                 /\ resp' = 200

handle_heartbeat(p) ==
    /\ Running
    /\ reqCount' = reqCount + 1
    /\ (HeartbeatMalformed(p) \/ HeartbeatObject(p))
    /\ tickRec' = [tickRec EXCEPT !.mid = @ \/ monPc \in {"probe", "predict_send"}]
    /\ UNCHANGED <<now, config, envVars, monVars, extVars, sendAlertCalls>>

(* ----------------------------- monitor_loop --------------------------- *)
\* HeartbeatRegistry.isTimedOut as the monitor applies it to Jordan
JordanTimedOut(last_seen, t) ==
    IF last_seen # None THEN t - last_seen > heartbeat_timeout ELSE TRUE

\* ... and to MiniMax: a MiniMax that was never seen is not down
MinimaxTimedOut(last_seen, t) ==
    IF last_seen # None THEN t - last_seen > heartbeat_timeout ELSE FALSE

\* a guard that takes the gate as the previous tick read it
ShouldHandleStaleGate(jd, md, gate) == jd /\ ~tickRec.gate

\* the guard of the failure handling
ShouldHandle(jd, md, gate) == jd /\ ~gate

\* the tick is over: back to asyncio.sleep(60)
GoToSleep ==
    /\ monPc' = "sleep"
    /\ wakeAt' = now + TickSleep

\* a handling that counts the attempt and leaves the gate as it is
FinishFailureGateOpen ==
    /\ recovery_attempts' = recovery_attempts + 1
    /\ alert_sent' = alert_sent
    /\ GoToSleep

\* lines 955/967 and 969
FinishFailure ==
    /\ recovery_attempts' = recovery_attempts + 1
    /\ alert_sent' = TRUE
    /\ GoToSleep

\* asyncio.sleep(60) is over; `now` is read and check_mac_awake awaited
MonWake ==
    /\ monPc = "sleep"
    /\ now >= wakeAt
    /\ tickNow' = now
    /\ monPc' = "probe"
    /\ tickRec' = [tickRec EXCEPT !.mid = FALSE]
    /\ UNCHANGED <<now, config, envVars, stateVars, wakeAt, jordan_down, minimax_down,
                   level, scriptIdx, extVars, httpVars, sendAlertCalls, episodeAlerts>>

\* lines 925-969 up to the first await: the timeout checks and the branch.
\* awake is state.mac_awake, evts is state.events as the caller leaves them.
Evaluate(awake, evts) ==
    LET jd == JordanTimedOut(jordan.last_seen, tickNow)
        md == MinimaxTimedOut(minimax.last_seen, tickNow)
        handle == ShouldHandle(jd, md, alert_sent)
        lvl == IF ~awake THEN "critical" ELSE "warning"
    IN /\ jordan_down' = jd
       /\ minimax_down' = md
       /\ jordan' = [jordan EXCEPT !.status =
                        IF jordan.last_seen = None THEN "NEVER SEEN"
                        ELSE IF jd THEN "DOWN" ELSE @]
       /\ minimax' = [minimax EXCEPT !.status = IF md THEN "DOWN" ELSE @]
       /\ tickRec' = [down |-> (IF jd THEN {"jordan"} ELSE {}) \cup
                                (IF md THEN {"minimax"} ELSE {}),
                      gate |-> alert_sent,
                      awake |-> awake, attempts0 |-> recovery_attempts,
                      critical |-> IF handle /\ lvl = "critical" THEN 1 ELSE 0,
                      warning |-> IF handle /\ lvl = "warning" THEN 1 ELSE 0,
                      wol |-> 0, runs |-> 0,
                      primary |-> IF handle THEN 1 ELSE 0,
                      secondary |-> 0, followups |-> 0, mid |-> tickRec.mid]
       /\ IF handle
            THEN \* alerts.send_alert(..., level) is called: its first await
                 /\ events' = Logged(evts, "failure", "jordan")
                 /\ level' = lvl
                 /\ sendAlertCalls' = sendAlertCalls + 1
                 /\ episodeAlerts' = [episodeAlerts EXCEPT !["jordan"] = @ + 1]
                 /\ monPc' = "alert_primary"
                 /\ UNCHANGED wakeAt
            ELSE /\ events' = evts
                 /\ GoToSleep
                 /\ UNCHANGED <<level, sendAlertCalls, episodeAlerts>>
       /\ UNCHANGED <<alert_sent, recovery_attempts, metrics, heartbeat_intervals,
                      alert_history, tickNow, scriptIdx, sms, wol, ssh>>

\* a predictive alert that ignores the outstanding alert
PredictiveAlertAlways(prediction) ==
    config.enable_ml /\ prediction # "none"

\* lines 919-921: the tick raises the predictive alert
PredictiveAlertDue(prediction) ==
    config.enable_ml /\ prediction # "none" /\ ~alert_sent

\* check_mac_awake returned r; the prediction check; then the evaluation
MonProbe(r) ==
    /\ monPc = "probe"
    /\ mac_awake' = r
    /\ LET prediction == predict_failure(jordan.response_times, events,
                                         recovery_attempts)
       IN IF PredictiveAlertDue(prediction)
            THEN /\ events' = Logged(events, "prediction", "vigil")
                 /\ monPc' = "predict_send"
                 /\ UNCHANGED <<jordan, minimax, alert_sent, recovery_attempts,
                                metrics, heartbeat_intervals, alert_history,
                                tickNow, wakeAt, jordan_down, minimax_down, level,
                                scriptIdx, sms, wol, ssh, histVars>>
            ELSE Evaluate(r, events)
    /\ UNCHANGED <<now, config, envVars, telegram, httpVars>>

\* bot.send_message of the predictive alert returned or raised
MonPredictSent(outcome) ==
    /\ monPc = "predict_send"
    /\ IF outcome = "raise"
         THEN /\ monPc' = "crashed"
              /\ UNCHANGED <<stateVars, tickNow, wakeAt, jordan_down, minimax_down,
                             level, scriptIdx, extVars, histVars>>
         ELSE /\ telegram' = telegram + 1
              /\ Evaluate(mac_awake, events)
              /\ UNCHANGED mac_awake
    /\ UNCHANGED <<now, config, envVars, httpVars>>

(* ------------------- AlertManager.send_alert, send_wol ---------------- *)
\* whether send_alert goes on to send_sms (line 241)
WantsSms(lvl) == lvl = "critical" /\ config.twilio # "none"

\* whether send_sms gets as far as its POST (line 252)
SmsConfigured == config.twilio = "full"

\* run_recovery(target) up to its first ssh_command, from the monitor
StartRecovery(target, evts) ==
    /\ RECOVERY_SCRIPTS[target] > 0
    /\ events' = Logged(evts, "recovery", "vigil")
    /\ ssh' = ssh + 1
    /\ scriptIdx' = 1
    /\ monPc' = "ssh"
    /\ tickRec' = [tickRec EXCEPT !.runs = @ + 1]
    /\ UNCHANGED <<wol, recovery_attempts, alert_sent, wakeAt>>

\* send_wol(config.mac_mac_address), then lines 955 and 969
WakeAndFinish(evts) ==
    \E sent \in (IF config.mac THEN BOOLEAN ELSE {FALSE}) :
        /\ wol' = wol + 1
        /\ events' = IF sent THEN Logged(evts, "wol", "vigil") ELSE evts
        /\ tickRec' = [tickRec EXCEPT !.wol = @ + 1]
        /\ FinishFailure
        /\ UNCHANGED <<ssh, scriptIdx>>

\* the end of send_alert (the AlertRecord) and what the monitor does next:
\* the critical alert was the asleep branch, the warning the awake branch
AfterAlert(evts) ==
    /\ alert_history' = DequeAppend(alert_history, level, AlertCap)
    /\ IF level = "critical"
         THEN WakeAndFinish(evts)
         ELSE StartRecovery("gateway", evts)

\* send_alert's bot.send_message returned or raised
MonAlertPrimary(outcome) ==
    /\ monPc = "alert_primary"
    /\ IF outcome = "raise"
         THEN \* nothing catches it: send_alert and monitor_loop end
              /\ monPc' = "crashed"
              /\ UNCHANGED <<stateVars, wakeAt, scriptIdx, extVars, tickRec>>
         ELSE /\ telegram' = telegram + 1
              /\ metrics' = [metrics EXCEPT !.alert_count = @ + 1]
              /\ LET evts == Logged(events, "alert", "vigil")
                 IN IF WantsSms(level) /\ SmsConfigured
                      THEN /\ events' = evts
                           /\ monPc' = "alert_sms"
                           /\ tickRec' = [tickRec EXCEPT !.secondary = @ + 1]
                           /\ UNCHANGED <<alert_history, recovery_attempts, alert_sent,
                                          wakeAt, scriptIdx, wol, ssh>>
                      ELSE AfterAlert(evts)
              /\ UNCHANGED <<jordan, minimax, mac_awake, heartbeat_intervals, sms>>
    /\ UNCHANGED <<now, config, envVars, tickNow, jordan_down, minimax_down, level,
                   httpVars, sendAlertCalls, episodeAlerts>>

\* send_sms's POST returned or raised (caught and logged at line 269)
MonAlertSms(outcome) ==
    /\ monPc = "alert_sms"
    /\ sms' = IF outcome = "ok" THEN sms + 1 ELSE sms
    /\ AfterAlert(events)
    /\ UNCHANGED <<now, config, envVars, jordan, minimax, mac_awake, metrics,
                   heartbeat_intervals, tickNow, jordan_down, minimax_down, level,
                   telegram, httpVars, sendAlertCalls, episodeAlerts>>

(* ----------------------------- run_recovery --------------------------- *)
\* ssh_command returned (success, output); its own exceptions are caught
\* and returned as (False, str(e))
MonSsh(success) ==
    /\ monPc = "ssh"
    /\ IF success
         THEN /\ metrics' = [metrics EXCEPT !.recovery_success = @ + 1]
              /\ FinishFailure
              /\ UNCHANGED <<scriptIdx, ssh, tickRec>>
         ELSE IF scriptIdx < RECOVERY_SCRIPTS["gateway"]
         THEN /\ scriptIdx' = scriptIdx + 1
              /\ ssh' = ssh + 1
              /\ UNCHANGED <<metrics, monPc, wakeAt, recovery_attempts, alert_sent,
                             tickRec>>
         ELSE /\ metrics' = [metrics EXCEPT !.recovery_failed = @ + 1]
              /\ monPc' = "followup"
              /\ tickRec' = [tickRec EXCEPT !.followups = @ + 1]
              /\ UNCHANGED <<scriptIdx, ssh, wakeAt, recovery_attempts, alert_sent>>
    /\ UNCHANGED <<now, config, envVars, jordan, minimax, mac_awake, heartbeat_intervals,
                   events, alert_history, tickNow, jordan_down, minimax_down, level,
                   telegram, sms, wol, httpVars, sendAlertCalls, episodeAlerts>>

\* the "Auto-restart failed" bot.send_message returned or raised
MonFollowup(outcome) ==
    /\ monPc = "followup"
    /\ IF outcome = "raise"
         THEN /\ monPc' = "crashed"
              /\ UNCHANGED <<telegram, wakeAt, recovery_attempts, alert_sent>>
         ELSE /\ telegram' = telegram + 1
              /\ FinishFailure
    /\ UNCHANGED <<now, config, envVars, jordan, minimax, mac_awake, metrics,
                   heartbeat_intervals, events, alert_history, tickNow, jordan_down,
                   minimax_down, level, scriptIdx, sms, wol, ssh, httpVars, histVars>>

(* ------------------ run_recovery from the command path ---------------- *)
\* the targets run_recovery is called with: the four of RECOVERY_SCRIPTS
\* and one that has no entry
Targets == DOMAIN RECOVERY_SCRIPTS \cup {"database"}

\* the three messages run_recovery returns, as the parts of the f-string;
\* a part is a tuple of strings
NoScriptsMsg(target) == << <<"No recovery scripts for ">>, <<target>> >>
SuccessMsg(script) == << <<"Recovery successful: ">>, <<script>> >>
AllFailedMsg(target) == << <<"All recovery scripts failed for ">>, <<target>> >>

\* what ssh_command returns beside the flag: stdout or stderr of the
\* command, or str(e)
SshOutput(script, success) ==
    <<script, IF success THEN "stdout" ELSE "stderr">>

\* a loop without the `if success: return`
RunContinuesPastSuccess(success, k, n) == k < n

\* the `for script in scripts` loop goes on to script k + 1 of n
RunContinues(success, k, n) == ~success /\ k < n

\* run_recovery(target) is called: lines 460-467 up to the first await
CmdRecover(target) ==
    /\ Running
    /\ cmd.pc = "idle"
    /\ cmd.calls < MaxCalls
    /\ LET scripts == ScriptsOf(target)
           call == [cmd EXCEPT !.target = target, !.invoked = <<>>,
                               !.calls = @ + 1,
                               !.s0 = metrics.recovery_success,
                               !.f0 = metrics.recovery_failed,
                               !.ssh0 = ssh]
       IN IF scripts = <<>>
            THEN /\ cmd' = [call EXCEPT !.result =
                               [success |-> FALSE, msg |-> NoScriptsMsg(target)]]
                 /\ UNCHANGED <<events, ssh>>
            ELSE /\ cmd' = [call EXCEPT !.pc = "ssh", !.result = NoResult]
                 /\ events' = Logged(events, "recovery", "vigil")
                 /\ ssh' = ssh + 1
    /\ UNCHANGED <<now, config, jordan, minimax, mac_awake, alert_sent,
                   recovery_attempts, metrics, heartbeat_intervals, alert_history,
                   monVars, telegram, sms, wol, httpVars, histVars, clockSets, chat>>

\* ssh_command returned (success, output) to run_recovery: lines 467-473
CmdSsh(success) ==
    /\ cmd.pc = "ssh"
    /\ LET scripts == ScriptsOf(cmd.target)
           k == Len(cmd.invoked) + 1
           script == scripts[k]
           done == Append(cmd.invoked,
                          [script |-> script, ok |-> success,
                           output |-> SshOutput(script, success)])
       IN IF RunContinues(success, k, Len(scripts))
            THEN /\ cmd' = [cmd EXCEPT !.invoked = done]
                 /\ ssh' = ssh + 1
                 /\ UNCHANGED metrics
            ELSE IF success
            THEN /\ metrics' = [metrics EXCEPT !.recovery_success = @ + 1]
                 /\ cmd' = [cmd EXCEPT !.pc = "idle", !.invoked = done,
                              !.result = [success |-> TRUE, msg |-> SuccessMsg(script)]]
                 /\ UNCHANGED ssh
            ELSE /\ metrics' = [metrics EXCEPT !.recovery_failed = @ + 1]
                 /\ cmd' = [cmd EXCEPT !.pc = "idle", !.invoked = done,
                              !.result = [success |-> FALSE,
                                          msg |-> AllFailedMsg(cmd.target)]]
                 /\ UNCHANGED ssh
    /\ UNCHANGED <<now, config, jordan, minimax, mac_awake, alert_sent,
                   recovery_attempts, heartbeat_intervals, events, alert_history,
                   monVars, telegram, sms, wol, httpVars, histVars, clockSets, chat>>

(* ----------------------- TelegramBot.process_message ------------------ *)
\* the ids messages come from: the operator's and a stranger's
Senders == {authorized_user, "1000000001"}

\* the slash commands explored, and a message in natural language
SlashCommands == {"/wake", "/restart", "/status"}
Texts == SlashCommands \cup {"wake the mac"}

\* call_ai's answers: plain text, or text with the [WAKE] marker
AiResponses == {"plain", "[WAKE]"}

\* a check that lets every sender in
AuthorizedAnyone(from_id) == TRUE

\* line 676: from_id == config.authorized_user
Authorized(from_id) == from_id = authorized_user

\* what no step of process_message writes
ChatFrame ==
    UNCHANGED <<now, config, jordan, minimax, mac_awake, alert_sent, recovery_attempts,
                heartbeat_intervals, alert_history, monVars, sms, httpVars, histVars,
                cmd, clockSets>>

\* poll hands a message to process_message: lines 676-688 and the command's
\* branch of handle_command, up to the first await
ChatMessage(text, from_id) ==
    /\ Running
    /\ chat.pc = "idle"
    /\ chat.msgs < MaxMessages
    /\ IF ~Authorized(from_id)
         THEN /\ chat' = [chat EXCEPT !.msgs = @ + 1, !.from = from_id]
              /\ UNCHANGED <<events, wol>>
         ELSE LET c == [chat EXCEPT !.msgs = @ + 1, !.from = from_id,
                                    !.logged = @ + 1]
                  evts == Logged(events, "command", "operator")
              IN CASE text = "/wake" ->
                        \* send_wol, then the reply
                        /\ wol' = wol + 1
                        /\ events' = IF config.mac
                                       THEN Logged(evts, "wol", "vigil") ELSE evts
                        /\ chat' = [c EXCEPT !.pc = "reply"]
                   [] text = "/restart" ->
                        \* "Attempting gateway restart..."
                        /\ chat' = [c EXCEPT !.pc = "notice"]
                        /\ events' = evts
                        /\ UNCHANGED wol
                   [] text \in SlashCommands \ {"/wake", "/restart"} ->
                        /\ chat' = [c EXCEPT !.pc = "reply"]
                        /\ events' = evts
                        /\ UNCHANGED wol
                   [] OTHER ->
                        \* call_ai
                        /\ chat' = [c EXCEPT !.pc = "ai", !.ai = @ + 1]
                        /\ events' = evts
                        /\ UNCHANGED wol
    /\ UNCHANGED <<metrics, telegram, ssh>>
    /\ ChatFrame

\* the notice of /restart was posted or the post raised (poll catches it at
\* line 843); then restart_gateway: run_recovery("gateway") up to its first
\* ssh_command
ChatNotice(outcome) ==
    /\ chat.pc = "notice"
    /\ IF outcome = "raise"
         THEN /\ chat' = [chat EXCEPT !.pc = "idle"]
              /\ UNCHANGED <<events, telegram, ssh>>
         ELSE /\ telegram' = telegram + 1
              /\ events' = Logged(events, "recovery", "vigil")
              /\ ssh' = ssh + 1
              /\ chat' = [chat EXCEPT !.pc = "ssh", !.script = 1]
    /\ UNCHANGED <<metrics, wol>>
    /\ ChatFrame

\* ssh_command returned to the run_recovery of /restart
ChatSsh(success) ==
    /\ chat.pc = "ssh"
    /\ IF success
         THEN /\ metrics' = [metrics EXCEPT !.recovery_success = @ + 1]
              /\ chat' = [chat EXCEPT !.pc = "reply"]
              /\ UNCHANGED ssh
         ELSE IF chat.script < RECOVERY_SCRIPTS["gateway"]
         THEN /\ chat' = [chat EXCEPT !.script = @ + 1]
              /\ ssh' = ssh + 1
              /\ UNCHANGED metrics
         ELSE /\ metrics' = [metrics EXCEPT !.recovery_failed = @ + 1]
              /\ chat' = [chat EXCEPT !.pc = "reply"]
              /\ UNCHANGED ssh
    /\ UNCHANGED <<events, telegram, wol>>
    /\ ChatFrame

\* call_ai returned: lines 691-694, then the reply
ChatAi(response) ==
    /\ chat.pc = "ai"
    /\ IF response = "[WAKE]"
         THEN /\ wol' = wol + 1
              /\ events' = IF config.mac THEN Logged(events, "wol", "vigil") ELSE events
         ELSE UNCHANGED <<wol, events>>
    /\ chat' = [chat EXCEPT !.pc = "reply"]
    /\ UNCHANGED <<metrics, telegram, ssh>>
    /\ ChatFrame

\* the reply was posted or the post raised; process_message is over
ChatReply(outcome) ==
    /\ chat.pc = "reply"
    /\ telegram' = IF outcome = "ok" THEN telegram + 1 ELSE telegram
    /\ chat' = [chat EXCEPT !.pc = "idle"]
    /\ UNCHANGED <<events, metrics, wol, ssh>>
    /\ ChatFrame

(* ------------------------- src/vigil_v5.py ---------------------------- *)
\* TelegramBot.send_message of version 5 returns at its second line, before
\* the filter and the POST
Suppressed == TRUE

\* the messages posted to Telegram after one more send_message call
V5Posted(posted) == IF Suppressed THEN posted ELSE posted + 1

\* handle_heartbeat of version 5; db.add_event raising is caught like any
\* other exception, after the state was written
V5Heartbeat(p, dbOk) ==
    /\ Running
    /\ reqCount' = reqCount + 1
    /\ IF p.kind # "object"
         THEN /\ resp' = 400
              /\ UNCHANGED <<stateVars, episodeAlerts>>
         ELSE /\ metrics' = [metrics EXCEPT !.heartbeat_count = @ + 1]
              /\ jordan' = IF RecordsInto(p.source, "jordan")
                             THEN Recorded(jordan, p)
                             ELSE jordan
              /\ minimax' = IF RecordsInto(p.source, "minimax")
                               THEN [minimax EXCEPT !.last_seen = now,
                                                    !.status = RecordedStatus(p)]
                               ELSE minimax
              /\ ResetGate
              /\ episodeAlerts' = [s \in Services |->
                                     IF s = p.source THEN 0 ELSE episodeAlerts[s]]
              /\ resp' = IF dbOk THEN 200 ELSE 400
              /\ UNCHANGED <<heartbeat_intervals, events, alert_history>>
    /\ UNCHANGED <<now, config, envVars, monVars, extVars, sendAlertCalls, tickRec>>

\* scheduler_loop: the sleep is over, `now` is read, db.get_due_reminders
\* is awaited (briefing and reminders touch no monitored state)
V5Wake ==
    /\ monPc = "sleep"
    /\ now >= wakeAt
    /\ tickNow' = now
    /\ monPc' = "v5_reminders"
    /\ UNCHANGED <<now, config, envVars, stateVars, wakeAt, jordan_down, minimax_down,
                   level, scriptIdx, extVars, httpVars, histVars>>

\* scheduler_loop lines 1055-1065: the heartbeat check, the alert handed
\* to send_message, and restart_gateway up to its ssh_command
V5Check ==
    /\ monPc = "v5_reminders"
    /\ IF /\ jordan.last_seen # None
          /\ tickNow - jordan.last_seen > heartbeat_timeout
          /\ ~alert_sent
         THEN /\ jordan' = [jordan EXCEPT !.status = "DOWN"]
              /\ sendAlertCalls' = sendAlertCalls + 1
              /\ episodeAlerts' = [episodeAlerts EXCEPT !["jordan"] = @ + 1]
              /\ telegram' = V5Posted(telegram)
              /\ ssh' = ssh + 1
              /\ monPc' = "ssh"
              /\ UNCHANGED wakeAt
         ELSE /\ GoToSleep
              /\ UNCHANGED <<jordan, sendAlertCalls, episodeAlerts, telegram, ssh>>
    /\ UNCHANGED <<now, config, envVars, minimax, mac_awake, alert_sent,
                   recovery_attempts, metrics, heartbeat_intervals, events,
                   alert_history, tickNow, jordan_down, minimax_down, level,
                   scriptIdx, sms, wol, httpVars, tickRec>>

\* restart_gateway of version 5: its one ssh_command returned; line 1066
V5Ssh(success) ==
    /\ monPc = "ssh"
    /\ metrics' = IF success
                    THEN [metrics EXCEPT !.recovery_success = @ + 1]
                    ELSE [metrics EXCEPT !.recovery_failed = @ + 1]
    /\ alert_sent' = TRUE
    /\ GoToSleep
    /\ UNCHANGED <<now, config, envVars, jordan, minimax, mac_awake,
                   recovery_attempts, heartbeat_intervals, events, alert_history,
                   tickNow, jordan_down, minimax_down, level, scriptIdx, extVars,
                   httpVars, histVars>>

(* ------------------------------ the system ---------------------------- *)
SendOutcomes == {"ok", "raise"}

Next ==
    \/ ClockTick
    \/ \E p \in PlainPayloads : reqCount < MaxRequests /\ handle_heartbeat(p)
    \/ MonWake
    \/ \E r \in BOOLEAN : MonProbe(r)
    \/ \E o \in SendOutcomes : MonPredictSent(o)
    \/ \E o \in SendOutcomes : MonAlertPrimary(o)
    \/ \E o \in {"ok", "fail"} : MonAlertSms(o)
    \/ \E success \in BOOLEAN : MonSsh(success)
    \/ \E o \in SendOutcomes : MonFollowup(o)

Spec == Init /\ [][Next]_vars

\* The heartbeat receiver under every kind of request body, beside a monitor
\* that runs with ENABLE_ML=false and without Twilio.
InitIngest == InitWith(IngestConfigs)

NextIngest ==
    \/ ClockTick
    \/ \E p \in Payloads : reqCount < IngestRequests /\ handle_heartbeat(p)
    \/ MonWake
    \/ \E r \in BOOLEAN : MonProbe(r)
    \/ \E o \in SendOutcomes : MonAlertPrimary(o)
    \/ \E success \in BOOLEAN : MonSsh(success)
    \/ \E o \in SendOutcomes : MonFollowup(o)

SpecIngest == InitIngest /\ [][NextIngest]_vars

\* The receiver and the monitor on a host whose wall clock can be set back.
NextWall ==
    \/ ClockTick
    \/ ClockSetBack
    \/ \E p \in PlainPayloads : reqCount < IngestRequests /\ handle_heartbeat(p)
    \/ MonWake
    \/ \E r \in BOOLEAN : MonProbe(r)
    \/ \E o \in SendOutcomes : MonAlertPrimary(o)
    \/ \E success \in BOOLEAN : MonSsh(success)
    \/ \E o \in SendOutcomes : MonFollowup(o)

SpecWall == InitIngest /\ [][NextWall]_vars

\* Version 5: its heartbeat receiver and its scheduler loop.
NextV5 ==
    \/ ClockTick
    \/ \E p \in PlainPayloads, dbOk \in BOOLEAN :
          reqCount < MaxRequests /\ V5Heartbeat(p, dbOk)
    \/ V5Wake
    \/ V5Check
    \/ \E success \in BOOLEAN : V5Ssh(success)

SpecV5 == InitIngest /\ [][NextV5]_vars

\* The anomaly detector on a receiver that has been running for a while:
\* Jordan was last seen at time 0 and the interval history holds up to
\* MaxHistory samples of one sleep period, the oldest possibly twice as long.
Histories ==
    { [i \in 1..n |-> IF i = 1 THEN first ELSE TickSleep]
        : n \in 0..MaxHistory, first \in {TickSleep, 2 * TickSleep} }

\* ANOMALY_THRESHOLD=0 and the default
AnomalyConfigs ==
    { [twilio |-> "none", mac |-> FALSE, enable_ml |-> FALSE, anomaly_threshold |-> th]
        : th \in {0, anomaly_threshold} }

InitAnomaly ==
    /\ now = 0
    /\ config \in AnomalyConfigs
    /\ heartbeat_intervals \in Histories
    /\ jordan = [NewHeartbeatStatus EXCEPT !.last_seen = 0, !.status = "ok"]
    /\ minimax = NewHeartbeatStatus
    /\ mac_awake = TRUE
    /\ alert_sent = FALSE
    /\ recovery_attempts = 0
    /\ metrics = [heartbeat_count |-> Len(heartbeat_intervals) + 1, alert_count |-> 0,
                  recovery_success |-> 0, recovery_failed |-> 0,
                  anomalies_detected |-> 0]
    /\ events = <<>>
    /\ alert_history = <<>>
    /\ monPc = "sleep"
    /\ tickNow = 0
    /\ wakeAt = TickSleep
    /\ jordan_down = FALSE
    /\ minimax_down = FALSE
    /\ level = "warning"
    /\ scriptIdx = 0
    /\ telegram = 0 /\ sms = 0 /\ wol = 0 /\ ssh = 0
    /\ reqCount = 0
    /\ resp = 0
    /\ sendAlertCalls = 0
    /\ episodeAlerts = [s \in Services |-> 0]
    /\ tickRec = NoTick
    /\ cmd = IdleCmd
    /\ clockSets = 0
    /\ chat = IdleChat

NextAnomaly ==
    \/ ClockTick
    \/ reqCount < IngestRequests
         /\ handle_heartbeat(HeartbeatBody("jordan", "ok", EmptyDetails))
    \/ MonWake
    \/ \E r \in BOOLEAN : MonProbe(r)
    \/ \E o \in SendOutcomes : MonAlertPrimary(o)
    \/ \E success \in BOOLEAN : MonSsh(success)
    \/ \E o \in SendOutcomes : MonFollowup(o)

SpecAnomaly == InitAnomaly /\ [][NextAnomaly]_vars

\* A receiver that has been running for a while, between two ticks: Jordan
\* was last seen at time 0, the clock reads one of `times`, the monitor
\* sleeps since then, and the stores hold one of `inputs`.
Started(configs, times, inputs) ==
    /\ now \in times
    /\ config \in configs
    /\ \E s \in inputs :
          /\ heartbeat_intervals = s.intervals
          /\ jordan = [NewHeartbeatStatus EXCEPT !.last_seen = 0, !.status = "ok",
                                                 !.response_times = s.response_times]
          /\ events = s.events
          /\ alert_history = s.alerts
          /\ recovery_attempts = s.attempts
          /\ alert_sent = (s.attempts > 0)
          /\ metrics = [heartbeat_count |-> Len(s.intervals) + 1,
                        alert_count |-> Len(s.alerts),
                        recovery_success |-> 0, recovery_failed |-> 0,
                        anomalies_detected |-> 0]
          /\ sendAlertCalls = Len(s.alerts)
    /\ minimax = NewHeartbeatStatus
    /\ mac_awake = TRUE
    /\ monPc = "sleep"
    /\ tickNow = now
    /\ wakeAt = now + TickSleep
    /\ jordan_down = FALSE
    /\ minimax_down = FALSE
    /\ level = "warning"
    /\ scriptIdx = 0
    /\ telegram = 0 /\ sms = 0 /\ wol = 0 /\ ssh = 0
    /\ reqCount = 0
    /\ resp = 0
    /\ episodeAlerts = [s \in Services |-> 0]
    /\ tickRec = NoTick
    /\ cmd = IdleCmd
    /\ clockSets = 0
    /\ chat = IdleChat

\* the stores of a process that recorded the intervals h and nothing else
OnlyIntervals(h) ==
    [intervals |-> h, response_times |-> <<>>, events |-> <<>>, alerts |-> <<>>,
     attempts |-> 0]

\* One heartbeat of Jordan against an interval history of up to LongHistory
\* samples of one sleep period (the oldest possibly twice as long), one or
\* ten periods after the previous heartbeat.
DetectHistories ==
    { [i \in 1..n |-> IF i = 1 THEN first ELSE TickSleep]
        : n \in 0..LongHistory, first \in {TickSleep, 2 * TickSleep} }

DetectTimes == {TickSleep, 10 * TickSleep}

InitDetect ==
    Started(AnomalyConfigs, DetectTimes, {OnlyIntervals(h) : h \in DetectHistories})

NextDetect ==
    \/ ClockTick
    \/ reqCount < IngestRequests
         /\ handle_heartbeat(HeartbeatBody("jordan", "ok", EmptyDetails))

SpecDetect == InitDetect /\ [][NextDetect]_vars

\* The predictor beside the monitor.  Response-time histories: empty, ten
\* steady samples, ten whose latest five are twice or exactly 1.5 times the
\* preceding five, and nine that drift.
ResponseHistories ==
    { <<>>,
      [i \in 1..10 |-> 2],
      [i \in 1..10 |-> IF i <= 5 THEN 2 ELSE 4],
      [i \in 1..10 |-> IF i <= 5 THEN 2 ELSE 3],
      [i \in 1..9 |-> IF i <= 4 THEN 2 ELSE 4] }

\* k "failure" events logged at time t
Failures(k, t) == [i \in 1..k |-> [type |-> "failure", source |-> "jordan", ts |-> t]]

\* event logs: empty, two and three recent failures, and three failures
\* logged exactly RecentHours before the start
EventLogs ==
    { Failures(0, 0), Failures(2, 0), Failures(3, 0),
      Failures(3, 0 - RecentHours * SecondsPerHour) }

\* recovery_attempts as predict_failure may read it; monitor_loop sets
\* alert_sent in the step that raises it
AttemptCounts == 0..2

PredictInputs ==
    { [intervals |-> <<>>, response_times |-> rt, events |-> ev, alerts |-> <<>>,
       attempts |-> a]
        : rt \in ResponseHistories, ev \in EventLogs, a \in AttemptCounts }

PredictConfigs == { c \in Configs : c.twilio = "none" }

InitPredict == Started(PredictConfigs, {0}, PredictInputs)

NextPredict ==
    \/ ClockTick
    \/ reqCount < IngestRequests
         /\ handle_heartbeat(HeartbeatBody("jordan", "ok", TimedDetails))
    \/ MonWake
    \/ \E r \in BOOLEAN : MonProbe(r)
    \/ \E o \in SendOutcomes : MonPredictSent(o)
    \/ \E o \in SendOutcomes : MonAlertPrimary(o)
    \/ \E success \in BOOLEAN : MonSsh(success)
    \/ \E o \in SendOutcomes : MonFollowup(o)

SpecPredict == InitPredict /\ [][NextPredict]_vars

\* A process whose four stores are full, or one entry short of it.  The
\* oldest entry of each store differs from the others, so that an eviction
\* shows: the oldest interval is twice as long, the oldest response time
\* twice as high, the oldest event a period older, the oldest alert critical.
FullStores ==
    { [intervals |-> [i \in 1..(IntervalCap - k) |->
                        IF i = 1 THEN 2 * TickSleep ELSE TickSleep],
       response_times |-> [i \in 1..(ResponseCap - k) |-> IF i = 1 THEN 2 ELSE 1],
       events |-> [i \in 1..(EventCap - k) |->
                     [type |-> "failure", source |-> "jordan",
                      ts |-> IF i = 1 THEN 0 - TickSleep ELSE 0]],
       alerts |-> [i \in 1..(AlertCap - k) |-> IF i = 1 THEN "critical" ELSE "warning"],
       attempts |-> 0]
        : k \in {0, 1} }

InitFull == Started(IngestConfigs, {0}, FullStores)

NextFull ==
    \/ ClockTick
    \/ reqCount < IngestRequests
         /\ handle_heartbeat(HeartbeatBody("jordan", "ok", TimedDetails))
    \/ MonWake
    \/ \E r \in BOOLEAN : MonProbe(r)
    \/ \E o \in SendOutcomes : MonAlertPrimary(o)
    \/ \E success \in BOOLEAN : MonSsh(success)
    \/ \E o \in SendOutcomes : MonFollowup(o)

SpecFull == InitFull /\ [][NextFull]_vars

\* run_recovery alone, called with every target, while the monitor sleeps
NextRecovery ==
    \/ \E t \in Targets : CmdRecover(t)
    \/ \E success \in BOOLEAN : CmdSsh(success)

SpecRecovery == InitIngest /\ [][NextRecovery]_vars

\* The chat path alone, with messages of the operator and of a stranger.
NextChat ==
    \/ \E text \in Texts, from_id \in Senders : ChatMessage(text, from_id)
    \/ \E o \in SendOutcomes : ChatNotice(o)
    \/ \E success \in BOOLEAN : ChatSsh(success)
    \/ \E response \in AiResponses : ChatAi(response)
    \/ \E o \in SendOutcomes : ChatReply(o)

SpecChat == InitIngest /\ [][NextChat]_vars

(* ============================== claims =============================== *)
\* the step in which a tick evaluates the timeouts (lines 925-946)
EvalStep ==
    /\ monPc \in {"probe", "predict_send"}
    /\ monPc' \in {"sleep", "alert_primary"}

\* the step that ends a tick's failure handling (line 969)
HandlingEnds ==
    /\ monPc \in {"alert_primary", "alert_sms", "ssh", "followup"}
    /\ monPc' = "sleep"

\* HeartbeatRegistry.isTimedOut of the specification
IsTimedOut(last_seen, t) == last_seen = None \/ t - last_seen > heartbeat_timeout

\* C1: between the tick that marks a service DOWN and the next heartbeat of
\* that same service, at most one timeout alert is sent for it.
C1_AtMostOneAlertPerEpisode ==
    \A s \in Services : episodeAlerts[s] <= 1

\* C2: once a heartbeat of the gateway service has ended its DOWN episode
\* (it was seen, and no timeout alert was sent since its last heartbeat),
\* the gate is open again: alert_sent is false.
C2_GateRearms ==
    (jordan.last_seen # None /\ episodeAlerts["jordan"] = 0) => ~alert_sent

\* C3: no failed delivery and no failed recovery ever stops the monitor loop.
C3_LoopNeverStops == monPc # "crashed"

\* C4: a recovery run that waits for a remote action does not hold the
\* monitor back: whenever a tick period has passed since the last tick
\* began, the running monitor is at its sleep, free to evaluate the timeouts.
C4_RecoveryOffTickPath ==
    (Running /\ now >= tickNow + TickSleep) => monPc = "sleep"

\* C5: every send_alert call appends exactly one AlertRecord, whatever the
\* delivery outcome, and returns to its caller: outside send_alert the
\* history holds one record per call begun.
C5_EveryAlertRecorded ==
    monPc \notin {"alert_primary", "alert_sms"}
        => Len(alert_history) = sendAlertCalls

\* C6: a tick that found a service down with alert_sent false ends with
\* exactly one critical alert, one wake signal and no recovery run (host
\* unreachable) or exactly one warning alert, one recovery run and no wake
\* signal (host reachable); recovery_attempts is one higher and alert_sent
\* is true.
C6_Post(r) ==
    (r.down # {} /\ ~r.gate) =>
        /\ IF r.awake
             THEN r.warning = 1 /\ r.critical = 0 /\ r.runs = 1 /\ r.wol = 0
             ELSE r.critical = 1 /\ r.warning = 0 /\ r.wol = 1 /\ r.runs = 0
        /\ recovery_attempts' = r.attempts0 + 1
        /\ alert_sent'

C6_FreshDownHandled ==
    [][((EvalStep /\ monPc' = "sleep") \/ HandlingEnds) => C6_Post(tickRec')]_vars

\* C7: at every tick every service is treated as timed out iff its
\* last_seen is null or older than the timeout.
C7_TimedOutIffPredicate ==
    [][EvalStep =>
         /\ jordan_down' = IsTimedOut(jordan.last_seen, tickNow)
         /\ minimax_down' = IsTimedOut(minimax.last_seen, tickNow)]_vars

\* the status the program reports for a service that is up
UpStatus == "ok"

ServiceRecord(s) == IF s = "jordan" THEN jordan ELSE minimax

\* C8: after an accepted heartbeat of service S at `now`: last_seen = now,
\* status UP, details replaced, alert_sent false, recovery_attempts 0, and
\* an interval sample appended iff S had a previous last_seen.
C8_Post(p) ==
    LET before == ServiceRecord(p.source)
        after == IF p.source = "jordan" THEN jordan' ELSE minimax'
    IN /\ after.last_seen = now
       /\ after.status = UpStatus
       /\ after.details = p.details
       /\ ~alert_sent'
       /\ recovery_attempts' = 0
       /\ heartbeat_intervals' =
            IF before.last_seen # None
              THEN Append(heartbeat_intervals, now - before.last_seen)
              ELSE heartbeat_intervals

C8_AcceptedHeartbeatRecorded ==
    [][\A p \in Payloads :
         (p.kind = "object" /\ p.source \in Services
            /\ handle_heartbeat(p) /\ resp' = 200) => C8_Post(p)]_vars

\* C9: a heartbeat whose source is no configured service is rejected with
\* an error and changes no state.
C9_UnknownSourceRejected ==
    [][\A p \in Payloads :
         (p.kind = "object" /\ p.source \notin Services /\ handle_heartbeat(p))
            => (resp' = 400 /\ UNCHANGED stateVars)]_vars

\* C10: a heartbeat request answered with a client error leaves the monitor
\* state as it was.
C10_ClientErrorLeavesState ==
    [][\A p \in Payloads :
         (handle_heartbeat(p) /\ resp' = 400) => UNCHANGED stateVars]_vars

\* C11: last_seen of a service never decreases, and no negative interval
\* enters the interval history.
C11_LastSeenNeverDecreases ==
    [][/\ jordan'.last_seen >= jordan.last_seen
       /\ minimax'.last_seen >= minimax.last_seen
       /\ \A i \in 1..Len(heartbeat_intervals') : heartbeat_intervals'[i] >= 0]_vars

\* the ssh_command calls of the returned run, in order
PlanPrefix(c) ==
    /\ Len(c.invoked) <= Len(ScriptsOf(c.target))
    /\ \A i \in 1..Len(c.invoked) : c.invoked[i].script = ScriptsOf(c.target)[i]

\* a run_recovery call of the command path has returned
Returned == cmd.pc = "idle" /\ cmd.calls > 0

\* whether a message contains the text x
Contains(msg, x) == \E i \in 1..Len(msg) : msg[i] = x

\* C12: a run that returns success invoked the plan's actions in order,
\* each once, only the last one succeeded and is the one the message
\* names; the success counter rose by one, the failure counter not at all,
\* and no further action was invoked.
C12_StopsAtFirstSuccess ==
    (Returned /\ cmd.result.success) =>
        LET k == Len(cmd.invoked)
        IN /\ k >= 1
           /\ PlanPrefix(cmd)
           /\ \A i \in 1..k : cmd.invoked[i].ok <=> (i = k)
           /\ cmd.result.msg = SuccessMsg(ScriptsOf(cmd.target)[k])
           /\ ssh = cmd.ssh0 + k
           /\ metrics.recovery_success = cmd.s0 + 1
           /\ metrics.recovery_failed = cmd.f0

\* the second gateway script succeeded after the first failed, and the
\* third was never invoked
C12_Witness ==
    /\ Returned /\ cmd.result.success
    /\ cmd.target = "gateway" /\ Len(cmd.invoked) = 2

\* C13: a run in which every action failed returns failure with a message
\* that contains the output of each failed action; the failure counter rose
\* by one and the success counter not at all.
C13_FailureAggregatesOutputs ==
    (Returned /\ ~cmd.result.success /\ cmd.invoked # <<>>) =>
        /\ \A i \in 1..Len(cmd.invoked) :
              Contains(cmd.result.msg, cmd.invoked[i].output)
        /\ metrics.recovery_failed = cmd.f0 + 1
        /\ metrics.recovery_success = cmd.s0

\* the longest a remote action may be awaited; the specification leaves the
\* bound to the implementation
RemoteActionBound == 2 * TickSleep

\* C14: no remote action is awaited for longer than the bound: the first
\* action of the monitor's recovery run, invoked when the tick began, has
\* returned or was given up by then.
C14_RemoteActionBounded ==
    (monPc = "ssh" /\ scriptIdx = 1) => now - tickNow < RemoteActionBound

\* C15: run_recovery for a target without a plan returns a failure whose
\* message is not the one of a run whose actions all failed, invokes no
\* remote action and changes no counter.
C15_NoPlanConfigured ==
    (Returned /\ cmd.target \notin DOMAIN RECOVERY_SCRIPTS) =>
        /\ ~cmd.result.success
        /\ cmd.result.msg = NoScriptsMsg(cmd.target)
        /\ \A t \in Targets : cmd.result.msg # AllFailedMsg(t)
        /\ cmd.invoked = <<>>
        /\ ssh = cmd.ssh0
        /\ metrics.recovery_success = cmd.s0
        /\ metrics.recovery_failed = cmd.f0

\* a run for the target without a plan returned after an earlier run had
\* moved the counters
C15_Witness ==
    /\ Returned /\ cmd.target = "database"
    /\ cmd.calls = 2 /\ cmd.f0 = 1

\* C16: once send_alert is left, a critical alert has invoked the primary
\* channel once and the secondary channel once if one is configured (never
\* otherwise), a warning alert only the primary channel, and every call has
\* appended one AlertRecord.
C16_ChannelsByLevel ==
    monPc \notin {"alert_primary", "alert_sms"} =>
        /\ tickRec.critical = 1 =>
              /\ tickRec.primary = 1
              /\ tickRec.secondary = IF SmsConfigured THEN 1 ELSE 0
        /\ tickRec.warning = 1 =>
              tickRec.primary = 1 /\ tickRec.secondary = 0
        /\ Len(alert_history) = sendAlertCalls

\* C17: every timeout alert the monitor raised was handed to the primary
\* channel: as many messages were posted to Telegram as alerts were raised.
C17_AlertsReachPrimary == telegram = sendAlertCalls

\* C18: after a tick that ran the recovery, a follow-up message reporting
\* the outcome was sent, whether the recovery succeeded or failed.
C18_FollowUpEitherWay ==
    (monPc = "sleep" /\ tickRec.runs = 1) => tickRec.followups = 1

ZScoreExceeds(h, x, th) ==
    LET n == Len(h)
        S == SumSeq(h)
        Q == SumSq(h)
        d == n * x - S
    IN IF n * Q - S * S = 0 THEN FALSE
       ELSE d * d > (th * th * n * (n * Q - S * S)) \div (n - 1)

\* a heartbeat of Jordan is accepted and yields an interval sample
IntervalStep ==
    /\ reqCount' = reqCount + 1
    /\ jordan.last_seen # None
    /\ jordan'.last_seen = now
    /\ resp' = 200

\* C21: with at least 10 samples in the history, an interval is reported
\* anomalous iff its z-score against the mean and the sample standard
\* deviation of the history without that interval exceeds the threshold, and
\* never when that deviation is 0.
C21_StatisticsExcludeCurrent ==
    [][(IntervalStep /\ Len(heartbeat_intervals) >= MinSamples) =>
         ((metrics'.anomalies_detected = metrics.anomalies_detected + 1)
            <=> ZScoreExceeds(heartbeat_intervals, now - jordan.last_seen,
                              config.anomaly_threshold))]_vars

\* the history of LongHistory samples that are all one sleep period
FlatHistory == [i \in 1..LongHistory |-> TickSleep]

\* C22: against a history of 20 samples that are all 60, with threshold 2,
\* an interval of 60 is not anomalous and an interval of 600 is, and the
\* heartbeat is answered without an error in either case.
C22_FlatHistoryVerdicts ==
    [][(reqCount' = reqCount + 1 /\ heartbeat_intervals = FlatHistory
          /\ config.anomaly_threshold = 2 /\ jordan.last_seen = 0) =>
         /\ resp' = 200
         /\ now = TickSleep =>
               metrics'.anomalies_detected = metrics.anomalies_detected
         /\ now = 10 * TickSleep =>
               metrics'.anomalies_detected = metrics.anomalies_detected + 1]_vars

\* the interval of 600 was recorded after the flat history and counted
C22_Witness ==
    /\ config.anomaly_threshold = 2
    /\ Len(heartbeat_intervals) = LongHistory + 1
    /\ SubSeq(heartbeat_intervals, 1, LongHistory) = FlatHistory
    /\ heartbeat_intervals[LongHistory + 1] = 10 * TickSleep
    /\ metrics.anomalies_detected = 1

\* heuristic 1: at least 10 samples, and the mean of the latest 5 is more
\* than 1.5 times the mean of the 5 before them
ResponseDrift ==
    LET rt == jordan.response_times
        n == Len(rt)
    IN /\ n >= 10
       /\ 2 * SumSeq(SubSeq(rt, n - 4, n)) > 3 * SumSeq(SubSeq(rt, n - 9, n - 5))

\* heuristic 2: at least 3 failure events in the last 6 hours
Flapping ==
    Cardinality({ i \in 1..Len(events) :
                    /\ events[i].type = "failure"
                    /\ now - events[i].ts < 6 * SecondsPerHour }) >= 3

\* heuristic 3: at least 2 recovery attempts
StuckRecovery == recovery_attempts >= 2

\* the first heuristic that fires, in the order 1, 2, 3
FirstHeuristic ==
    IF ResponseDrift THEN "response_times"
    ELSE IF Flapping THEN "outages"
    ELSE IF StuckRecovery THEN "recovery_attempts"
    ELSE "none"

\* C23: the tick's prediction is the first heuristic that fires, in the
\* order response-time drift, flapping, stuck recovery, and none iff no
\* heuristic fires; the tick raises a predictive alert for any prediction
\* but none, when prediction is enabled and no alert is outstanding.
C23_FirstHeuristicWins ==
    [][(monPc = "probe" /\ monPc' # "probe") =>
         /\ predict_failure(jordan.response_times, events, recovery_attempts)
              = FirstHeuristic
         /\ (monPc' = "predict_send")
              <=> (config.enable_ml /\ FirstHeuristic # "none" /\ ~alert_sent)]_vars

\* the response times drift while the log holds three recent failures, and
\* the tick raised the predictive alert
C23_Witness ==
    /\ monPc = "predict_send"
    /\ ResponseDrift /\ Flapping
    /\ FirstHeuristic = "response_times"

\* C24: the prediction is advisory.  The step that evaluates it and raises
\* the predictive alert is taken only while alert_sent is false and writes
\* no service record, flag, counter or history; until that alert is
\* delivered the tick changes neither alert_sent nor recovery_attempts and
\* starts no recovery run and no wake signal.
C24_PredictionIsAdvisory ==
    [][/\ (monPc = "probe" /\ monPc' = "predict_send") =>
            /\ ~alert_sent
            /\ UNCHANGED <<jordan, minimax, alert_sent, recovery_attempts, metrics,
                           heartbeat_intervals, alert_history, wol, ssh>>
       /\ (monPc = "predict_send" /\ monPc' # "predict_send") =>
            /\ telegram' \in {telegram, telegram + 1}
            /\ UNCHANGED <<alert_sent, recovery_attempts, wol, ssh>>]_vars

\* a predictive alert was delivered and the tick ended without any failure
\* handling
C24_Witness ==
    /\ monPc = "sleep"
    /\ telegram = 1 /\ sendAlertCalls = 0
    /\ ~alert_sent /\ recovery_attempts = 0
    /\ wol = 0 /\ ssh = 0

\* the status values of the specification, as the program spells them
StatusValues == {"unknown", UpStatus, "DOWN"}

\* the status changes of the specification
StatusChanges == {<<"unknown", UpStatus>>, <<UpStatus, "DOWN">>, <<"DOWN", UpStatus>>}

\* C25: the status of every service is always one of UNKNOWN, UP and DOWN,
\* and it changes only from UNKNOWN to UP, from UP to DOWN and from DOWN to
\* UP.
C25_StatusMachine ==
    [][/\ jordan'.status \in StatusValues
       /\ minimax'.status \in StatusValues
       /\ jordan'.status # jordan.status =>
             <<jordan.status, jordan'.status>> \in StatusChanges
       /\ minimax'.status # minimax.status =>
             <<minimax.status, minimax'.status>> \in StatusChanges]_vars

\* a store of capacity cap went from old to new by at most one append that
\* evicted the oldest entry when the store was full
BoundedStep(old, new, cap) ==
    /\ Len(old) <= cap /\ Len(new) <= cap
    /\ \/ new = old
       \/ Len(old) < cap /\ new = Append(old, new[Len(new)])
       \/ Len(old) = cap /\ new = Append(Tail(old), new[Len(new)])

C27_AttemptsAtMostOne ==
    /\ recovery_attempts \in {0, 1}
    /\ predict_failure(jordan.response_times, events, recovery_attempts)
         # "recovery_attempts"

\* a heartbeat reset the counter while the tick awaited its alert or its
\* recovery, and the tick then counted its attempt
C27_Witness ==
    /\ recovery_attempts = 1
    /\ jordan.last_seen # None /\ episodeAlerts["jordan"] = 0
    /\ monPc = "sleep"

\* C28: whenever no failure handling is in progress, alert_sent = true or
\* recovery_attempts > 0 implies that the gateway service has sent no
\* heartbeat since that handling began (its alert is still the last thing
\* that happened to the service).
C28_FlagsImplyNoHeartbeatSince ==
    (monPc \in {"sleep", "probe", "predict_send"}
       /\ (alert_sent \/ recovery_attempts > 0))
        => episodeAlerts["jordan"] > 0

\* last_seen, status and details of a service record
Identity(hb) == <<hb.last_seen, hb.status, hb.details>>

\* C29: a heartbeat handled for one source leaves last_seen, status and
\* details of every other service as they were.
C29_OtherServicesUntouched ==
    [][\A p \in Payloads :
         handle_heartbeat(p) =>
            /\ p.source # "jordan" => Identity(jordan') = Identity(jordan)
            /\ p.source # "minimax" => Identity(minimax') = Identity(minimax)]_vars

\* Jordan reported "degraded", and MiniMax reported later without changing
\* Jordan's record
C29_Witness ==
    /\ jordan.last_seen # None /\ jordan.status = "degraded"
    /\ minimax.last_seen > jordan.last_seen /\ minimax.status = "ok"

\* C30: a chat message whose sender is not the authorized user causes no
\* wake signal, no recovery run or other command, no AI call, no outbound
\* message and no logged command event: process_message returns with the
\* state unchanged, and is never suspended on behalf of such a sender.
C30_UnauthorizedIgnored ==
    [][/\ (chat'.msgs = chat.msgs + 1 /\ chat'.from # authorized_user) =>
            /\ UNCHANGED <<stateVars, monVars, extVars, httpVars, cmd>>
            /\ chat' = [chat EXCEPT !.msgs = @ + 1, !.from = chat'.from]
       /\ chat'.pc # "idle" => chat'.from = authorized_user]_vars

\* the operator's /wake was served, and a stranger's message after it was
\* dropped
C30_Witness ==
    /\ chat.msgs = 2 /\ chat.from \in Senders \ {authorized_user}
    /\ chat.pc = "idle" /\ chat.logged = 1
    /\ wol = 1 /\ telegram = 1

TypeOK ==
    /\ monPc \in {"sleep", "probe", "predict_send", "alert_primary", "alert_sms",
                  "ssh", "followup", "crashed", "v5_reminders"}
    /\ alert_sent \in BOOLEAN
    /\ recovery_attempts \in Nat

====
